---- MODULE Spec2Model ----
(***************************************************************************)
(* Model of src/github_auto_cloner.py: the relevance scorer                *)
(* (_calculate_industry_relevance), the candidate selector inside          *)
(* clone_repositories, and the live / synthetic source chain inside        *)
(* search_repositories.                                                    *)
(*                                                                         *)
(* ScoreSpec calls the scorer alone.  Spec takes every method of the       *)
(* cloner as one step.  FetchSpec and FairFetchSpec follow a call of       *)
(* search_repositories statement by statement, with the rate limit check   *)
(* and its sleep.  CloneSpec calls clone_repositories repeatedly, with     *)
(* either way of running git, and records the error messages it logs.      *)
(* MainSpec follows one run of the command line from the construction of  *)
(* the cloner to the exit code.                                            *)
(*                                                                         *)
(* Strings are sequences of one-character strings, so that lower() and the *)
(* substring test `a in b` are computed and not assumed.  Relevance scores *)
(* are counted in hundredths (0.3 is 30, 1.0 is 100, 0.05 is 5); the       *)
(* rounding of binary floating point is not modelled.                      *)
(***************************************************************************)
EXTENDS Integers, Sequences, FiniteSets, TLC

VARIABLES
    config,            \* self.config, as loaded by _load_config
    envToken,          \* the environment variable GITHUB_TOKEN ({} when unset)
    github_available,  \* whether the import of the client library succeeded
    connection,        \* outcome of the connection test of _init_github_client
    github,            \* self.github: "client" or "none"
    results,           \* self.results
    last,              \* the last call made on the object: arguments, locals, value
    cli,               \* the query and keyword arguments the searches are called with
    liveFeed,          \* the repositories the live source yields for the query
    candA,             \* arguments of a direct call of the scorer
    candB,             \* arguments of a second direct call of the scorer
    scoreA,            \* value returned for candA (NoScore before the call)
    scoreB,            \* value returned for candB (NoScore before the call)
    git_available,     \* whether the import of the git library succeeded
    run                \* the search_repositories call in progress: its position and locals

vars == <<config, envToken, github_available, connection, github, results,
          last, cli, liveFeed, candA, candB, scoreA, scoreB, git_available,
          run>>

\* remaining of a call that asked for no rate limit yet
NoReport == 0 - 1

\* no call of search_repositories was made yet
NoRun == [pc |-> "idle", calls |-> 0, start |-> "none", state |-> "none",
          query |-> <<>>, i |-> 0, repositories |-> <<>>, liveCalls |-> 0,
          raised |-> "none", remaining |-> NoReport, wait |-> 0, log |-> <<>>]

----------------------------------------------------------------------------
(* Bounds of the model *)

MaxTopics == 2
MaxKeywords == 2

----------------------------------------------------------------------------
(* Strings *)

UpperChars == <<"A","B","C","D","E","F","G","H","I","J","K","L","M",
                "N","O","P","Q","R","S","T","U","V","W","X","Y","Z">>
LowerChars == <<"a","b","c","d","e","f","g","h","i","j","k","l","m",
                "n","o","p","q","r","s","t","u","v","w","x","y","z">>

LowerChar(c) ==
    IF \E i \in 1..Len(UpperChars) : UpperChars[i] = c
    THEN LowerChars[CHOOSE i \in 1..Len(UpperChars) : UpperChars[i] = c]
    ELSE c

\* str.lower()
Lower(s) == [i \in 1..Len(s) |-> LowerChar(s[i])]

\* a mutant of Contains: only the start of the text is compared
ContainsAtStart(needle, hay) ==
    /\ Len(needle) <= Len(hay)
    /\ \A i \in 1..Len(needle) : hay[i] = needle[i]

\* the operator `needle in hay` of str
Contains(needle, hay) ==
    \E off \in 0..(Len(hay) - Len(needle)) :
        \A i \in 1..Len(needle) : hay[off + i] = needle[i]

\* all sequences over S of length at most n
SeqsUpTo(S, n) == UNION {[1..k -> S] : k \in 0..n}

Min(a, b) == IF a <= b THEN a ELSE b

\* dict.get(key, default) and kwargs.get(key, default): an absent key is {},
\* a present one {value}
Get(opt, default) == IF opt = {} THEN default ELSE CHOOSE v \in opt : TRUE

----------------------------------------------------------------------------
(* The relevance scorer *)

WeightDescription == 30
WeightTopic == 50
WeightName == 20
ScoreCap == 100
\* marks a call that has not returned yet
NoScore == 0 - 1

\* self.config.get("search", {}).get("industry_keywords", [])
IndustryKeywords(cfg) == Get(cfg.industry_keywords, <<>>)

\* for keyword in industry_keywords: if keyword.lower() in text.lower(): += w
RECURSIVE ScanKeywords(_, _, _, _, _)
ScanKeywords(kws, i, text, w, acc) ==
    IF i > Len(kws) THEN acc
    ELSE ScanKeywords(kws, i + 1, text, w,
            IF Contains(Lower(kws[i]), Lower(text)) THEN acc + w ELSE acc)

\* a mutant of ScanTopics: the keyword loop stops at a topic's first hit
RECURSIVE ScanTopicsBreak(_, _, _, _)
ScanTopicsBreak(topics, j, kws, acc) ==
    IF j > Len(topics) THEN acc
    ELSE ScanTopicsBreak(topics, j + 1, kws,
            IF \E i \in 1..Len(kws) : Contains(Lower(kws[i]), Lower(topics[j]))
            THEN acc + WeightTopic ELSE acc)

\* a mutant of ScanTopics: a hit assigns the weight instead of adding it
RECURSIVE ScanTopicsAssign(_, _, _, _)
ScanTopicsAssign(topics, j, kws, acc) ==
    IF j > Len(topics) THEN acc
    ELSE ScanTopicsAssign(topics, j + 1, kws,
            IF \E i \in 1..Len(kws) : Contains(Lower(kws[i]), Lower(topics[j]))
            THEN WeightTopic ELSE acc)

\* for topic in topics: for keyword in industry_keywords: ... += 0.5
RECURSIVE ScanTopics(_, _, _, _)
ScanTopics(topics, j, kws, acc) ==
    IF j > Len(topics) THEN acc
    ELSE ScanTopics(topics, j + 1, kws,
            ScanKeywords(kws, 1, topics[j], WeightTopic, acc))

\* a mutant of CalculateIndustryRelevance: an empty keyword list scores 0.0
CalculateNoEmptyCase(cfg, name, description, topics) ==
    LET kws == IndustryKeywords(cfg)
        afterDescription == ScanKeywords(kws, 1, description, WeightDescription, 0)
        afterTopics == IF Len(topics) > 0
                       THEN ScanTopics(topics, 1, kws, afterDescription)
                       ELSE afterDescription
        afterName == ScanKeywords(kws, 1, name, WeightName, afterTopics)
    IN  Min(afterName, ScoreCap)

\* a mutant of CalculateIndustryRelevance: the final sum is not clamped
CalculateUnclamped(cfg, name, description, topics) ==
    LET kws == IndustryKeywords(cfg)
        afterDescription == ScanKeywords(kws, 1, description, WeightDescription, 0)
        afterTopics == IF Len(topics) > 0
                       THEN ScanTopics(topics, 1, kws, afterDescription)
                       ELSE afterDescription
        afterName == ScanKeywords(kws, 1, name, WeightName, afterTopics)
    IN  IF Len(kws) = 0 THEN ScoreCap ELSE afterName

\* GitHubAutoCloner._calculate_industry_relevance(name, description, topics)
CalculateIndustryRelevance(cfg, name, description, topics) ==
    LET kws == IndustryKeywords(cfg)
        afterDescription == ScanKeywords(kws, 1, description, WeightDescription, 0)
        afterTopics == IF Len(topics) > 0
                       THEN ScanTopics(topics, 1, kws, afterDescription)
                       ELSE afterDescription
        afterName == ScanKeywords(kws, 1, name, WeightName, afterTopics)
    IN  IF Len(kws) = 0 THEN ScoreCap ELSE Min(afterName, ScoreCap)

----------------------------------------------------------------------------
(* Inputs of the scorer *)

S_packaging == <<"p","a","c","k","a","g","i","n","g">>
S_pk_repo == <<"p","k","-","r","e","p","o">>
S_packaging_tool == <<"a"," ","p","a","c","k","a","g","i","n","g"," ",
                      "r","o","b","o","t"," ","t","o","o","l">>
S_automation == <<"a","u","t","o","m","a","t","i","o","n">>

KeywordPool == { <<"p","k">>, <<"A","B">>, <<"b">> }
NamePool == { <<"p","k","-","a","b">>, <<"x">> }
DescriptionPool == { <<>>, <<"a"," ","P","K","b">> }
TopicPool == { <<"a","b">>, <<"B","p","k">>, <<"x","-","A","B">> }

\* topic lists hold no topic twice
TopicLists == {t \in SeqsUpTo(TopicPool, MaxTopics) :
                 \A i, j \in 1..Len(t) : t[i] = t[j] => i = j}

\* a configuration file that sets no key
DefaultConfig ==
    [query |-> {}, industry_keywords |-> {}, add_industry_keywords |-> {},
     min_stars |-> {}, languages |-> {}, max_results |-> {},
     min_industry_relevance |-> {}, directory |-> {}, max_repositories |-> {},
     sort_by |-> {}, github_token |-> {}]

KeywordConfigs ==
    {[DefaultConfig EXCEPT !.industry_keywords = {k}] :
        k \in SeqsUpTo(KeywordPool, MaxKeywords)}
    \cup {DefaultConfig}

Candidates ==
    [name : NamePool, description : DescriptionPool,
     topics : TopicLists]

ScenarioConfig ==
    [DefaultConfig EXCEPT !.industry_keywords = {<<S_packaging>>}]
ScenarioCandidate ==
    [name |-> S_pk_repo, description |-> S_packaging_tool,
     topics |-> <<S_automation>>]

ScoreInit ==
    /\ \/ /\ config \in KeywordConfigs
          /\ candA \in Candidates
          /\ candB \in Candidates
       \/ /\ config = ScenarioConfig
          /\ candA = ScenarioCandidate
          /\ candB \in Candidates
    /\ scoreA = NoScore
    /\ scoreB = NoScore
    /\ envToken = {}
    /\ github_available = FALSE
    /\ connection = "notrun"
    /\ github = "none"
    /\ results = <<>>
    /\ last = [op |-> "none"]
    /\ cli = [query |-> {}, kwargs |-> {}, max_clone |-> {}, clone_dir |-> {}]
    /\ liveFeed = <<>>
    /\ git_available = FALSE
    /\ run = NoRun

\* two direct calls of the scorer on the same object
ScoreCall ==
    /\ scoreA = NoScore
    /\ scoreA' = CalculateIndustryRelevance(config, candA.name,
                     candA.description, candA.topics)
    /\ scoreB' = CalculateIndustryRelevance(config, candB.name,
                     candB.description, candB.topics)
    /\ UNCHANGED <<config, envToken, github_available, connection, github,
                   results, last, cli, liveFeed, candA, candB,
                   git_available, run>>

ScoreNext == ScoreCall

ScoreSpec == ScoreInit /\ [][ScoreNext]_vars

----------------------------------------------------------------------------
(* Properties of the scorer, checked under ScoreSpec *)

\* positions of the keyword list whose keyword occurs in the text
KeywordHits(cfg, text) ==
    {i \in 1..Len(IndustryKeywords(cfg)) :
        Contains(Lower(IndustryKeywords(cfg)[i]), Lower(text))}

DescriptionHitCount(cfg, c) == Cardinality(KeywordHits(cfg, c.description))
NameHitCount(cfg, c) == Cardinality(KeywordHits(cfg, c.name))

\* keywords that occur in at least one topic, each counted once
TopicKeywordCount(cfg, c) ==
    Cardinality(UNION {KeywordHits(cfg, c.topics[j]) : j \in 1..Len(c.topics)})

\* pairs (topic entry, keyword) such that the keyword occurs in the entry
TopicPairCount(cfg, c) ==
    Cardinality({p \in (1..Len(c.topics)) \X (1..Len(IndustryKeywords(cfg))) :
                    p[2] \in KeywordHits(cfg, c.topics[p[1]])})

PermutedKeywords(cfg, p) ==
    [cfg EXCEPT !.industry_keywords =
        {[i \in 1..Len(IndustryKeywords(cfg)) |-> IndustryKeywords(cfg)[p[i]]]}]

\* the score of candA is the same for every order of the keywords
OrderIndependent ==
    \A p \in Permutations(1..Len(IndustryKeywords(config))) :
        CalculateIndustryRelevance(PermutedKeywords(config, p), candA.name,
            candA.description, candA.topics) = scoreA

ScoredNonEmpty == scoreA # NoScore /\ Len(IndustryKeywords(config)) > 0

\* C1 (as stated): with a non-empty keyword list the score is
\* min(1.0, 0.3*d + 0.5*t + 0.2*n), t counting each keyword that occurs in
\* some topic once, and does not depend on the order of the keywords.
C1_ScoreFormulaKeywordOnce ==
    ScoredNonEmpty =>
        /\ scoreA = Min(ScoreCap,
                        WeightDescription * DescriptionHitCount(config, candA)
                        + WeightTopic * TopicKeywordCount(config, candA)
                        + WeightName * NameHitCount(config, candA))
        /\ OrderIndependent

\* C1 (amended): with a non-empty keyword list the score is
\* min(1.0, 0.3*d + 0.5*t + 0.2*n), where d and n count the entries of the
\* keyword list that occur in the description and in the name, and t counts
\* the pairs (topic entry, keyword entry) such that the keyword occurs in
\* the topic entry; the score does not depend on the order of the keywords.
C1_ScoreFormulaPairs ==
    ScoredNonEmpty =>
        /\ scoreA = Min(ScoreCap,
                        WeightDescription * DescriptionHitCount(config, candA)
                        + WeightTopic * TopicPairCount(config, candA)
                        + WeightName * NameHitCount(config, candA))
        /\ OrderIndependent

\* a keyword occurring in two topics has been scored, with two different
\* keywords in the list
C1_Witness ==
    /\ ScoredNonEmpty
    /\ Len(IndustryKeywords(config)) = 2
    /\ IndustryKeywords(config)[1] # IndustryKeywords(config)[2]
    /\ TopicPairCount(config, candA) > TopicKeywordCount(config, candA)
    /\ TopicKeywordCount(config, candA) = 1
    /\ DescriptionHitCount(config, candA) = 0
    /\ scoreA = ScoreCap

\* C3: when the keyword list is empty or absent from the configuration the
\* scorer returns exactly 1.0, whatever the name, description and topics.
C3_EmptyKeywordsScoreOne ==
    (scoreA # NoScore /\ IndustryKeywords(config) = <<>>) => scoreA = ScoreCap

\* a candidate with text in every field has been scored without keywords
C3_Witness ==
    /\ scoreA # NoScore
    /\ config.industry_keywords = {}
    /\ Len(candA.description) > 0
    /\ Len(candA.topics) > 0
    /\ scoreB = ScoreCap

ScenarioScored ==
    /\ config = ScenarioConfig
    /\ candA = ScenarioCandidate
    /\ scoreA # NoScore

\* C4 (as stated): keywords ["packaging"], name "pk-repo", description
\* "a packaging robot tool", topics ["automation"] score 0.5.
C4_ScenarioScoreHalf == ScenarioScored => scoreA = 50

\* C4 (amended): the scenario scores 0.3, all of it from the description;
\* the name "pk-repo" does not contain "packaging" and contributes nothing,
\* and neither does the topic.
C4_ScenarioScore ==
    ScenarioScored =>
        /\ scoreA = 30
        /\ DescriptionHitCount(config, candA) = 1
        /\ NameHitCount(config, candA) = 0
        /\ TopicPairCount(config, candA) = 0

C4_Witness == ScenarioScored /\ scoreB # NoScore

\* C5: for a fixed keyword list, a candidate with at least as many keyword
\* hits in the name, in the description and in the topics (a hit in the
\* topics being a keyword occurring in a topic entry) scores at least as
\* much as the other candidate.
C5_Monotone ==
    (/\ scoreA # NoScore
     /\ scoreB # NoScore
     /\ NameHitCount(config, candA) >= NameHitCount(config, candB)
     /\ DescriptionHitCount(config, candA) >= DescriptionHitCount(config, candB)
     /\ TopicPairCount(config, candA) >= TopicPairCount(config, candB))
    => scoreA >= scoreB

\* two candidates with different hit counts in every field were scored
C5_Witness ==
    /\ scoreA # NoScore
    /\ NameHitCount(config, candA) > NameHitCount(config, candB)
    /\ DescriptionHitCount(config, candA) > DescriptionHitCount(config, candB)
    /\ TopicPairCount(config, candA) > TopicPairCount(config, candB)
    /\ TopicPairCount(config, candB) > 0
    /\ scoreA > scoreB

----------------------------------------------------------------------------
(* Construction: credential and client *)

\* os.getenv("GITHUB_TOKEN", self.config.get("github_token", ""))
\* a mutant of ResolveToken: the configuration value comes first
ResolveTokenConfigFirst(cfg, env) == Get(cfg.github_token, Get(env, <<>>))

ResolveToken(cfg, env) == Get(env, Get(cfg.github_token, <<>>))

\* whether _init_github_client runs the connection test
ConnectionTested(cfg, env, available) ==
    Len(ResolveToken(cfg, env)) > 0 /\ available

\* a mutant of InitGithubClient: the client is kept when the test fails
InitGithubClientKeepFailed(cfg, env, available, conn) ==
    IF Len(ResolveToken(cfg, env)) = 0 THEN "none"
    ELSE IF available THEN "client"
    ELSE "none"

\* GitHubAutoCloner._init_github_client
InitGithubClient(cfg, env, available, conn) ==
    IF Len(ResolveToken(cfg, env)) = 0 THEN "none"
    ELSE IF available
         THEN (IF conn = "ok" THEN "client" ELSE "none")
         ELSE "none"

----------------------------------------------------------------------------
(* search_repositories: the query *)

DigitChars == <<"0","1","2","3","4","5","6","7","8","9">>

RECURSIVE NatToStr(_)
NatToStr(n) ==
    IF n < 10 THEN <<DigitChars[n + 1]>>
    ELSE NatToStr(n \div 10) \o <<DigitChars[(n % 10) + 1]>>

\* str(n) of an int, as an f-string formats it
IntToStr(n) == IF n < 0 THEN <<"-">> \o NatToStr(0 - n) ELSE NatToStr(n)

\* " ".join(parts)
RECURSIVE JoinSpace(_)
JoinSpace(parts) ==
    IF Len(parts) = 0 THEN <<>>
    ELSE IF Len(parts) = 1 THEN parts[1]
    ELSE parts[1] \o <<" ">> \o JoinSpace(Tail(parts))

Quoted(s) == <<"\"">> \o s \o <<"\"">>

S_stars == <<" ","s","t","a","r","s",":",">","=">>
S_language == <<"l","a","n","g","u","a","g","e",":">>

DefaultMinStars == 10

\* kwargs.get("min_stars", search_config.get("min_stars", 10))
MinStars(cfg, kw) == Get(kw.min_stars, Get(cfg.min_stars, DefaultMinStars))

\* the query string built at the start of search_repositories
BuildQuery(cfg, queryArg, kw) ==
    LET base == Get(queryArg, Get(cfg.query, <<>>))
        kwText == JoinSpace([i \in 1..Len(IndustryKeywords(cfg)) |->
                                Quoted(IndustryKeywords(cfg)[i])])
        withKeywords ==
            IF cfg.industry_keywords # {} /\ Get(cfg.add_industry_keywords, TRUE)
            THEN (IF Len(base) > 0 THEN base \o <<" ">> \o kwText ELSE kwText)
            ELSE base
        withStars == withKeywords \o S_stars \o IntToStr(MinStars(cfg, kw))
        languages == Get(kw.languages, Get(cfg.languages, <<>>))
        langText == JoinSpace([i \in 1..Len(languages) |->
                                S_language \o Quoted(languages[i])])
    IN  IF Len(languages) > 0 THEN withStars \o <<" ">> \o langText
        ELSE withStars

----------------------------------------------------------------------------
(* search_repositories: candidates *)

\* RepoData(...): cloned and clone_path take the dataclass defaults
RepoData(name, owner, description, stars, relevance) ==
    [name |-> name, owner |-> owner, description |-> description,
     stars |-> stars, industry_relevance |-> relevance,
     cloned |-> FALSE, clone_path |-> <<>>]

\* a mutant of KeepRelevant: a score equal to the threshold is dropped
KeepAboveOnly(repos, threshold) ==
    SelectSeq(repos, LAMBDA r : r.industry_relevance > threshold)

\* [r for r in repositories if r.industry_relevance >= min_relevance]
KeepRelevant(repos, threshold) ==
    SelectSeq(repos, LAMBDA r : r.industry_relevance >= threshold)

\* kwargs.get("min_relevance", search_config.get("min_industry_relevance", 0.0))
MinRelevance(cfg, kw) ==
    Get(kw.min_relevance, Get(cfg.min_industry_relevance, 0))

\* the filter by minimum relevance, applied when the threshold is positive
FilterByMinRelevance(cfg, kw, repos) ==
    IF MinRelevance(cfg, kw) > 0
    THEN KeepRelevant(repos, MinRelevance(cfg, kw))
    ELSE repos

DefaultMaxResultsLive == 100
DefaultMaxResultsSample == 5
SampleCap == 10

\* the loop over the items the live source yields
RECURSIVE LiveLoop(_, _, _, _, _)
LiveLoop(cfg, feed, i, maxResults, repositories) ==
    IF i > Len(feed) \/ Len(repositories) >= maxResults THEN repositories
    ELSE LiveLoop(cfg, feed, i + 1, maxResults,
            IF feed[i].raises THEN repositories
            ELSE Append(repositories,
                    RepoData(feed[i].name, feed[i].owner, feed[i].description,
                        feed[i].stars,
                        CalculateIndustryRelevance(cfg, feed[i].name,
                            feed[i].description, feed[i].topics))))

\* the candidates of a live search before the filter
LiveRepositories(cfg, kw, feed) ==
    LiveLoop(cfg, feed, 1,
        Get(kw.max_results, Get(cfg.max_results, DefaultMaxResultsLive)), <<>>)

S_food_packaging == <<"f","o","o","d"," ","p","a","c","k","a","g","i","n","g">>
S_operations_management ==
    <<"o","p","e","r","a","t","i","o","n","s"," ",
      "m","a","n","a","g","e","m","e","n","t">>
S_replit == <<"r","e","p","l","i","t">>
S_prefix_food == <<"f","o","o","d","-","p","a","c","k","a","g","i","n","g">>
S_prefix_operations ==
    <<"o","p","e","r","a","t","i","o","n","s","-","m","g","m","t">>
S_prefix_sample == <<"s","a","m","p","l","e">>
S_repo == <<"-","r","e","p","o","-">>
S_example_user == <<"e","x","a","m","p","l","e","-","u","s","e","r","-">>
S_sample_about ==
    <<"T","h","i","s"," ","i","s"," ","a"," ","s","a","m","p","l","e"," ",
      "r","e","p","o","s","i","t","o","r","y"," ","a","b","o","u","t"," ">>
S_sample_purposes ==
    <<" ","f","o","r"," ","d","e","m","o","n","s","t","r","a","t","i","o","n",
      " ","p","u","r","p","o","s","e","s",".">>

\* relevance and prefix of the sample repositories, from the query
SampleKindOf(lowered) ==
    IF Contains(S_food_packaging, lowered)
    THEN [relevance |-> 80, prefix |-> S_prefix_food]
    ELSE IF Contains(S_automation, lowered)
    THEN [relevance |-> 70, prefix |-> S_automation]
    ELSE IF Contains(S_operations_management, lowered)
    THEN [relevance |-> 90, prefix |-> S_prefix_operations]
    ELSE IF Contains(S_replit, lowered)
    THEN [relevance |-> 70, prefix |-> S_replit]
    ELSE [relevance |-> 50, prefix |-> S_prefix_sample]

SampleKind(query) == SampleKindOf(Lower(query))

SampleStep == 5
SampleStarsStep == 10

\* a mutant of SampleCount: the number of samples is not capped
SampleCountUncapped(cfg, kw) ==
    Get(kw.max_results, Get(cfg.max_results, DefaultMaxResultsSample))

\* min(kwargs.get("max_results", search_config.get("max_results", 5)), 10)
SampleCount(cfg, kw) ==
    Min(Get(kw.max_results, Get(cfg.max_results, DefaultMaxResultsSample)),
        SampleCap)

\* for i in range(1, count + 1): RepoData(...)
SampleLoop(kind, description, minStars, count) ==
    [i \in 1..count |->
        RepoData(kind.prefix \o S_repo \o IntToStr(i),
                 S_example_user \o IntToStr(i),
                 description,
                 minStars + i * SampleStarsStep,
                 kind.relevance - i * SampleStep)]

\* a mutant of SampleRepositories: the description does not echo the query
SampleRepositoriesNoQuery(cfg, kw, query) ==
    SampleLoop(SampleKind(query),
               S_sample_about \o SampleKind(query).prefix \o S_sample_purposes,
               MinStars(cfg, kw), SampleCount(cfg, kw))

\* the sample repositories before the filter
SampleRepositories(cfg, kw, query) ==
    SampleLoop(SampleKind(query),
               S_sample_about \o query \o S_sample_purposes,
               MinStars(cfg, kw), SampleCount(cfg, kw))

----------------------------------------------------------------------------
(* clone_repositories: the selector *)

\* the sort key: clone.sort_by, "stars" when the key is not set
SortBy(cfg) == Get(cfg.sort_by, "stars")

\* key=lambda r: r.industry_relevance, or key=lambda r: r.stars
SortKey(cfg, r) ==
    IF SortBy(cfg) = "industry_relevance" THEN r.industry_relevance
    ELSE r.stars

\* a mutant of InsertDescending: an equal key goes before the earlier ones
InsertDescendingBeforeEqual(cfg, repos, sorted, i) ==
    LET before == SelectSeq(sorted,
                    LAMBDA j : SortKey(cfg, repos[j]) > SortKey(cfg, repos[i]))
        after == SelectSeq(sorted,
                    LAMBDA j : SortKey(cfg, repos[j]) <= SortKey(cfg, repos[i]))
    IN  before \o <<i>> \o after

\* position i is placed after every position already placed whose key is
\* at least as large: sorted(..., reverse=True) is stable
InsertDescending(cfg, repos, sorted, i) ==
    LET before == SelectSeq(sorted,
                    LAMBDA j : SortKey(cfg, repos[j]) >= SortKey(cfg, repos[i]))
        after == SelectSeq(sorted,
                    LAMBDA j : SortKey(cfg, repos[j]) < SortKey(cfg, repos[i]))
    IN  before \o <<i>> \o after

RECURSIVE SortLoop(_, _, _, _)
SortLoop(cfg, repos, sorted, i) ==
    IF i > Len(repos) THEN sorted
    ELSE SortLoop(cfg, repos, InsertDescending(cfg, repos, sorted, i), i + 1)

\* sorted(repositories, key=..., reverse=True), as positions of repositories
SortedPositions(cfg, repos) == SortLoop(cfg, repos, <<>>, 1)

Max(a, b) == IF a >= b THEN a ELSE b

\* a mutant of SliceFirst: one element more is taken
SliceFirstOneMore(seq, k) ==
    SubSeq(seq, 1, Min(Len(seq), k + 1))

\* seq[:k] of a list: a negative k counts from the end
SliceFirst(seq, k) ==
    IF k >= 0 THEN SubSeq(seq, 1, Min(Len(seq), k))
    ELSE SubSeq(seq, 1, Max(0, Len(seq) + k))

DefaultMaxRepositories == 10
S_cloned_repos == <<"c","l","o","n","e","d","_","r","e","p","o","s">>

\* max_to_clone, or clone.max_repositories, or 10
MaxToClone(cfg, limitArg) ==
    Get(limitArg, Get(cfg.max_repositories, DefaultMaxRepositories))

\* clone_dir, or clone.directory, or "cloned_repos"
CloneDir(cfg, dirArg) == Get(dirArg, Get(cfg.directory, S_cloned_repos))

\* str(clone_path / f"{repo.owner}_{repo.name}")
TargetDir(dir, repo) == dir \o <<"/">> \o repo.owner \o <<"_">> \o repo.name

\* outcomes of the attempts on n selected candidates: all succeed, all
\* fail, only the first fails, only the first succeeds
Outcomes(n) ==
    { [i \in 1..n |-> TRUE], [i \in 1..n |-> FALSE],
      [i \in 1..n |-> i # 1], [i \in 1..n |-> i = 1] }

S_https == <<"h","t","t","p","s",":","/","/">>
S_github_com == <<"g","i","t","h","u","b",".","c","o","m">>
S_dot_git == <<".","g","i","t">>
S_REDACTED == <<"[","R","E","D","A","C","T","E","D","]">>
S_fatal == <<"f","a","t","a","l",":"," ">>
S_log_gitpython == <<"G","i","t","P","y","t","h","o","n"," ","e","r","r","o","r",":"," ">>
S_log_failed == <<"F","a","i","l","e","d",":"," ">>
S_log_error == <<"E","r","r","o","r",":"," ">>

\* repo.clone_url: https://github.com/{owner}/{name}.git
CloneUrlOf(repo) ==
    S_https \o S_github_com \o <<"/">> \o repo.owner \o <<"/">> \o repo.name
        \o S_dot_git

\* whether old starts at position i of text
StartsAt(text, i, old) ==
    /\ i + Len(old) - 1 <= Len(text)
    /\ \A j \in 1..Len(old) : text[i + j - 1] = old[j]

\* str.replace(old, new) from position i on, for a non-empty old
RECURSIVE ReplaceFrom(_, _, _, _)
ReplaceFrom(text, i, old, new) ==
    IF i > Len(text) THEN <<>>
    ELSE IF StartsAt(text, i, old)
    THEN new \o ReplaceFrom(text, i + Len(old), old, new)
    ELSE <<text[i]>> \o ReplaceFrom(text, i + 1, old, new)

Replace(text, old, new) == ReplaceFrom(text, 1, old, new)

\* lines 365-368: the token is put into the clone URL
AuthUrl(token, cloneUrl) ==
    IF Len(token) > 0 /\ Contains(S_github_com, cloneUrl)
    THEN Replace(cloneUrl, S_https, S_https \o token \o <<"@">>)
    ELSE cloneUrl

\* lines 421-423 and 428-430: the token is replaced in the error message
Redact(token, message) ==
    IF Len(token) > 0 /\ Contains(token, message)
    THEN Replace(message, token, S_REDACTED)
    ELSE message

\* the text of a failure: stderr of git, or str(e) of the exception; with
\* echo it quotes the URL the command was given, as git and GitPython do
ErrorText(echo, url) == IF echo THEN S_fatal \o url ELSE S_fatal

\* the error messages one failed attempt logs: GitPython's error is logged
\* at line 390 and again, after the raise, at line 431; a non-zero return of
\* the git command at line 424; any other exception at line 431
FailureLog(gitLibrary, failure, token, text) ==
    IF gitLibrary
    THEN << S_log_gitpython \o text, S_log_error \o Redact(token, text) >>
    ELSE IF failure = "nonzero"
    THEN << S_log_failed \o Redact(token, text) >>
    ELSE << S_log_error \o Redact(token, text) >>

\* a mutant of Attempt: the candidate is returned whatever the outcome
AttemptReturnAll(acc, pos, ok, dir, gitLibrary, failure, token, echo) ==
    [repos |-> IF ok
               THEN [acc.repos EXCEPT
                        ![pos].cloned = TRUE,
                        ![pos].clone_path = TargetDir(dir, acc.repos[pos])]
               ELSE acc.repos,
     cloned |-> Append(acc.cloned, pos),
     attempted |-> Append(acc.attempted, pos),
     urls |-> Append(acc.urls, AuthUrl(token, CloneUrlOf(acc.repos[pos]))),
     log |-> acc.log]

\* lines 360-431, one pass of the loop: the attempt on the candidate at
\* position pos of self.results, which succeeds (ok) or fails
Attempt(acc, pos, ok, dir, gitLibrary, failure, token, echo) ==
    [repos |-> IF ok
               THEN [acc.repos EXCEPT
                        ![pos].cloned = TRUE,
                        ![pos].clone_path = TargetDir(dir, acc.repos[pos])]
               ELSE acc.repos,
     cloned |-> IF ok THEN Append(acc.cloned, pos) ELSE acc.cloned,
     attempted |-> Append(acc.attempted, pos),
     urls |-> Append(acc.urls, AuthUrl(token, CloneUrlOf(acc.repos[pos]))),
     log |-> IF ok THEN acc.log
             ELSE acc.log \o
                  FailureLog(gitLibrary, failure, token,
                      ErrorText(echo,
                          AuthUrl(token, CloneUrlOf(acc.repos[pos]))))]

\* a mutant of CloneLoop: the loop ends at the first failed attempt
RECURSIVE CloneLoopAbort(_, _, _, _, _, _, _, _, _)
CloneLoopAbort(acc, toClone, k, ok, dir, gitLibrary, failure, token, echo) ==
    IF k > Len(toClone) THEN acc
    ELSE IF ~ok[k]
    THEN Attempt(acc, toClone[k], ok[k], dir, gitLibrary, failure, token, echo)
    ELSE CloneLoopAbort(
            Attempt(acc, toClone[k], ok[k], dir, gitLibrary, failure, token,
                    echo),
            toClone, k + 1, ok, dir, gitLibrary, failure, token, echo)

\* for repo in to_clone: ... (lines 360-431)
RECURSIVE CloneLoop(_, _, _, _, _, _, _, _, _)
CloneLoop(acc, toClone, k, ok, dir, gitLibrary, failure, token, echo) ==
    IF k > Len(toClone) THEN acc
    ELSE CloneLoop(
            Attempt(acc, toClone[k], ok[k], dir, gitLibrary, failure, token,
                    echo),
            toClone, k + 1, ok, dir, gitLibrary, failure, token, echo)

\* a mutant of Clone: the stored list is left in the order of the selector
CloneSortsInPlace(limitArg, dirArg, failure, echo) ==
    \E sorted \in {SortedPositions(config, results)} :
    \E toClone \in {SliceFirst(sorted, MaxToClone(config, limitArg))} :
    \E ok \in Outcomes(Len(toClone)) :
    \E done \in {CloneLoop([repos |-> results, cloned |-> <<>>,
                            attempted |-> <<>>, urls |-> <<>>,
                            log |-> <<>>],
                           toClone, 1, ok, CloneDir(config, dirArg),
                           git_available, failure,
                           ResolveToken(config, envToken), echo)} :
        /\ Len(results) > 0
        /\ failure = "nonzero" => ~git_available
        /\ results' = [k \in 1..Len(results) |-> done.repos[sorted[k]]]
        /\ last' = [op |-> "clone",
                    limit |-> MaxToClone(config, limitArg),
                    dir |-> CloneDir(config, dirArg),
                    sorted |-> sorted,
                    selected |-> toClone,
                    outcomes |-> ok,
                    attempted |-> done.attempted,
                    urls |-> done.urls,
                    returned |-> done.cloned,
                    log |-> done.log]
        /\ UNCHANGED <<config, envToken, github_available, connection, github,
                       cli, liveFeed, candA, candB, scoreA, scoreB,
                   git_available, run>>

\* clone_repositories(repositories, clone_dir, max_to_clone) on the list
\* the search returned, which is self.results; a failed attempt is a
\* non-zero return of the git command ("nonzero", without the git library
\* only) or an exception ("raise")
Clone(limitArg, dirArg, failure, echo) ==
    \E sorted \in {SortedPositions(config, results)} :
    \E toClone \in {SliceFirst(sorted, MaxToClone(config, limitArg))} :
    \E ok \in Outcomes(Len(toClone)) :
    \E done \in {CloneLoop([repos |-> results, cloned |-> <<>>,
                            attempted |-> <<>>, urls |-> <<>>,
                            log |-> <<>>],
                           toClone, 1, ok, CloneDir(config, dirArg),
                           git_available, failure,
                           ResolveToken(config, envToken), echo)} :
        /\ Len(results) > 0
        /\ failure = "nonzero" => ~git_available
        /\ results' = done.repos
        /\ last' = [op |-> "clone",
                    limit |-> MaxToClone(config, limitArg),
                    dir |-> CloneDir(config, dirArg),
                    sorted |-> sorted,
                    selected |-> toClone,
                    outcomes |-> ok,
                    attempted |-> done.attempted,
                    urls |-> done.urls,
                    returned |-> done.cloned,
                    log |-> done.log]
        /\ UNCHANGED <<config, envToken, github_available, connection, github,
                       cli, liveFeed, candA, candB, scoreA, scoreB,
                   git_available, run>>

\* clone_repositories when there is nothing to clone: returns []
CloneNothing ==
    /\ Len(results) = 0
    /\ last' = [op |-> "clone", limit |-> 0, dir |-> <<>>, sorted |-> <<>>,
                selected |-> <<>>, outcomes |-> <<>>, attempted |-> <<>>,
                urls |-> <<>>, returned |-> <<>>, log |-> <<>>]
    /\ UNCHANGED <<config, envToken, github_available, connection, github,
                   results, cli, liveFeed, candA, candB, scoreA, scoreB,
                   git_available, run>>

----------------------------------------------------------------------------
(* export_results *)

S_output_file == <<"o","u","t">>

LogNoResults == "warning: No results to export"
LogPandasFailed == "error: Error using pandas for export"
LogBasicFallback == "warning: Falling back to basic CSV export"
LogBasicFailed == "error: Error in basic CSV export"
LogExportFailed == "error: Error exporting results"

\* the writers of a CSV export: pandas when it is there ("works" or
\* "fails"), and the basic writer when pandas is absent or failed; basicFails
\* says whether the basic writer cannot write the file.  The value is what
\* lines 488-502 and _export_csv_basic leave: whether the file holds the
\* results, what was logged, and whether an exception reaches line 510
ExportCsv(pandas, basicFails) ==
    IF pandas = "works"
    THEN [failed |-> FALSE, log |-> <<>>, raised |-> FALSE]
    ELSE [failed |-> basicFails,
          log |-> (IF pandas = "fails"
                   THEN <<LogPandasFailed, LogBasicFallback>> ELSE <<>>)
                  \o (IF basicFails THEN <<LogBasicFailed>> ELSE <<>>),
          raised |-> FALSE]

\* the JSON export of lines 503-506: open() or json.dump raises or not
ExportJson(fails) ==
    [failed |-> fails, log |-> <<>>, raised |-> fails]

\* a mutant of Export: the candidates are written in the order of the
\* selector, the most starred first
ExportSelectionOrder(format, pandas, fails) ==
    /\ last' =
        IF Len(results) = 0
        THEN [op |-> "export", format |-> format, failed |-> FALSE,
              written |-> <<>>, value |-> <<>>, log |-> <<LogNoResults>>]
        ELSE [op |-> "export", format |-> format, failed |-> FALSE,
              written |-> [k \in 1..Len(results) |->
                            results[SortedPositions(config, results)[k]]],
              value |-> S_output_file, log |-> <<>>]
    /\ UNCHANGED <<config, envToken, github_available, connection, github,
                   results, cli, liveFeed, candA, candB, scoreA, scoreB,
                   git_available, run>>

\* export_results(format): pandas is "absent", "works" or "fails"; fails
\* says whether the basic writer, or the JSON writer, cannot write the file
Export(format, pandas, fails) ==
    /\ \E done \in {IF format = "csv" THEN ExportCsv(pandas, fails)
                    ELSE ExportJson(fails)} :
        last' =
            IF Len(results) = 0
            THEN [op |-> "export", format |-> format, failed |-> FALSE,
                  written |-> <<>>, value |-> <<>>, log |-> <<LogNoResults>>]
            ELSE [op |-> "export", format |-> format,
                  failed |-> done.failed,
                  written |-> IF done.failed THEN <<>> ELSE results,
                  value |-> IF done.raised THEN <<>> ELSE S_output_file,
                  log |-> done.log \o
                          (IF done.raised THEN <<LogExportFailed>> ELSE <<>>)]
    /\ UNCHANGED <<config, envToken, github_available, connection, github,
                   results, cli, liveFeed, candA, candB, scoreA, scoreB,
                   git_available, run>>

----------------------------------------------------------------------------
(* Inputs of the cloner *)

MaxLive == 3

TokenEnv == <<"e","t">>
TokenConfig == <<"c","t">>

LiveItem(name, owner, description, topics, stars, raises) ==
    [name |-> name, owner |-> owner, description |-> description,
     topics |-> topics, stars |-> stars, raises |-> raises]

\* repositories the live source can yield
LivePool ==
    { LiveItem(<<"p","k","-","a","b">>, <<"o","1">>, <<>>,
               << <<"a","b">> >>, 10, FALSE),
      LiveItem(<<"x">>, <<"o","2">>, <<"a"," ","P","K","b">>,
               << <<"B","p","k">>, <<"x","-","A","B">> >>, 50, FALSE),
      LiveItem(<<"x">>, <<"o","3">>, <<>>, <<>>, 30, FALSE),
      LiveItem(<<"p","k","-","a","b">>, <<"o","4">>, <<"a"," ","P","K","b">>,
               << <<"a","b">>, <<"B","p","k">> >>, 30, FALSE) }

\* what one iteration of the live source yields: no repository twice
LiveFeeds == {f \in SeqsUpTo(LivePool, MaxLive) :
                \A i, j \in 1..Len(f) : f[i] = f[j] => i = j}

NoKwargs == [min_stars |-> {}, languages |-> {}, max_results |-> {},
             min_relevance |-> {}]

\* a command line that sets no option
DefaultCall == [query |-> {}, kwargs |-> NoKwargs, max_clone |-> {},
                clone_dir |-> {}, search_only |-> FALSE,
                export_format |-> "json", config_file |-> "ok"]

S_Food_Packaging ==
    <<"F","o","o","d"," ","P","a","c","k","a","g","i","n","g">>

\* calls that differ in the number of repositories to clone
LimitCalls ==
    {[DefaultCall EXCEPT !.max_clone = m] :
        m \in {{}, {0 - 1}, {0}, {1}, {2}}}

\* calls that differ in the minimum relevance
ThresholdCalls ==
    {[DefaultCall EXCEPT !.kwargs = [NoKwargs EXCEPT !.min_relevance = {t}]] :
        t \in {0, 50, 70}}

\* calls that differ in what the sample repositories depend on
SampleCalls ==
    {[DefaultCall EXCEPT !.query = q] :
        q \in {{}, {S_Food_Packaging}, {S_automation},
               {S_operations_management}, {S_replit}}}
    \cup
    {[DefaultCall EXCEPT !.kwargs = [NoKwargs EXCEPT !.max_results = {m},
                                                     !.min_relevance = t]] :
        m \in {0 - 1, 0, 2, 12}, t \in {{}, {40}}}
    \cup
    {[DefaultCall EXCEPT !.query = {S_Food_Packaging},
                         !.kwargs = [NoKwargs EXCEPT !.min_relevance = {t}]] :
        t \in {60, 75}}

KeywordChoices == {{}, {<< <<"A","B">> >>}, {<< <<"p","k">>, <<"b">> >>}}

TokenOnlyConfig == [DefaultConfig EXCEPT !.github_token = {TokenConfig}]

\* configurations that differ in the sort key and in the keywords
SelectorConfigs ==
    {[TokenOnlyConfig EXCEPT !.sort_by = sb] :
        sb \in {{}, {"stars"}, {"name"}}}
    \cup
    {[TokenOnlyConfig EXCEPT !.industry_keywords = k,
                             !.sort_by = {"industry_relevance"}] :
        k \in KeywordChoices}

\* configurations with keywords, without and with a threshold of their own
KeywordOnlyConfigs ==
    {[TokenOnlyConfig EXCEPT !.industry_keywords = k] :
        k \in KeywordChoices \ {{}}}

ThresholdConfig ==
    [TokenOnlyConfig EXCEPT !.industry_keywords = {<< <<"A","B">> >>},
                            !.min_industry_relevance = {50}]

\* calls on a configuration that sets the threshold: kept, or overridden
OverrideCalls ==
    {DefaultCall,
     [DefaultCall EXCEPT !.kwargs = [NoKwargs EXCEPT !.min_relevance = {70}]]}

\* configurations that differ in the credential only
CredentialConfigs ==
    {[DefaultConfig EXCEPT !.github_token = t] : t \in {{}, {TokenConfig}}}

\* the longest feeds
LongFeeds == {f \in LiveFeeds : Len(f) = Min(MaxLive, Cardinality(LivePool))}

\* the feeds of one repository
ShortFeeds == {f \in LiveFeeds : Len(f) = 1 /\ f[1].stars = 50}

NoCandidate == [name |-> <<>>, description |-> <<>>, topics |-> <<>>]

\* the state after GitHubAutoCloner.__init__
Init ==
    /\ \/ /\ config \in SelectorConfigs
          /\ cli = DefaultCall
          /\ liveFeed \in LongFeeds
          /\ envToken = {}
          /\ github_available = TRUE
          /\ connection = "ok"
       \/ /\ config = TokenOnlyConfig
          /\ cli \in LimitCalls
          /\ liveFeed \in LiveFeeds
          /\ envToken = {}
          /\ github_available = TRUE
          /\ connection = "ok"
       \/ /\ \/ config \in KeywordOnlyConfigs /\ cli \in ThresholdCalls
             \/ config = ThresholdConfig /\ cli \in OverrideCalls
          /\ liveFeed \in LongFeeds
          /\ envToken = {}
          /\ github_available = TRUE
          /\ connection = "ok"
       \/ /\ config = TokenOnlyConfig
          /\ cli \in SampleCalls
          /\ liveFeed \in ShortFeeds
          /\ envToken = {}
          /\ github_available \in BOOLEAN
          /\ IF ConnectionTested(config, envToken, github_available)
             THEN connection \in {"ok", "failed"}
             ELSE connection = "notrun"
       \/ /\ config \in CredentialConfigs
          /\ cli = DefaultCall
          /\ liveFeed \in ShortFeeds
          /\ envToken \in {{}, {<<>>}, {TokenEnv}}
          /\ github_available \in BOOLEAN
          /\ IF ConnectionTested(config, envToken, github_available)
             THEN connection \in {"ok", "failed"}
             ELSE connection = "notrun"
    /\ github = InitGithubClient(config, envToken, github_available, connection)
    /\ results = <<>>
    /\ last = [op |-> "init"]
    /\ candA = NoCandidate
    /\ candB = NoCandidate
    /\ scoreA = NoScore
    /\ scoreB = NoScore
    /\ git_available = FALSE
    /\ run = NoRun

\* if github_available and self.github:
StartsLive(available, client) == available /\ client = "client"

\* a mutant of Search: a live search without candidates goes on to the
\* sample data
SearchFallsBack(fault) ==
    \E live \in {StartsLive(github_available, github)} :
    \E degraded \in {live /\ fault # "none"} :
    \E query \in {BuildQuery(config, cli.query, cli.kwargs)} :
    \E unfiltered \in {IF /\ live
                          /\ ~degraded
                          /\ Len(FilterByMinRelevance(config, cli.kwargs,
                                LiveRepositories(config, cli.kwargs,
                                    liveFeed))) > 0
                       THEN LiveRepositories(config, cli.kwargs, liveFeed)
                       ELSE SampleRepositories(config, cli.kwargs, query)} :
        /\ ~live => fault = "none"
        /\ results' = FilterByMinRelevance(config, cli.kwargs, unfiltered)
        /\ last' = [op |-> "search",
                    start |-> IF live THEN "LIVE" ELSE "SYNTHETIC",
                    final |-> IF degraded THEN "DEGRADED"
                              ELSE IF live THEN "LIVE" ELSE "SYNTHETIC",
                    liveCalls |-> IF ~live THEN 0
                                  ELSE IF fault = "count" THEN 1 ELSE 2,
                    unfiltered |-> unfiltered,
                    threshold |-> MinRelevance(config, cli.kwargs)]
        /\ UNCHANGED <<config, envToken, github_available, connection, github,
                       cli, liveFeed, candA, candB, scoreA, scoreB,
                   git_available, run>>

\* search_repositories(query, **kwargs); fault says whether the result
\* count ("count") or the iteration ("iter") of the live source raises
Search(fault) ==
    \E live \in {StartsLive(github_available, github)} :
    \E degraded \in {live /\ fault # "none"} :
    \E query \in {BuildQuery(config, cli.query, cli.kwargs)} :
    \E unfiltered \in {IF live /\ ~degraded
                       THEN LiveRepositories(config, cli.kwargs, liveFeed)
                       ELSE SampleRepositories(config, cli.kwargs, query)} :
        /\ ~live => fault = "none"
        /\ results' = FilterByMinRelevance(config, cli.kwargs, unfiltered)
        /\ last' = [op |-> "search",
                    start |-> IF live THEN "LIVE" ELSE "SYNTHETIC",
                    final |-> IF degraded THEN "DEGRADED"
                              ELSE IF live THEN "LIVE" ELSE "SYNTHETIC",
                    liveCalls |-> IF ~live THEN 0
                                  ELSE IF fault = "count" THEN 1 ELSE 2,
                    unfiltered |-> unfiltered,
                    threshold |-> MinRelevance(config, cli.kwargs)]
        /\ UNCHANGED <<config, envToken, github_available, connection, github,
                       cli, liveFeed, candA, candB, scoreA, scoreB,
                   git_available, run>>

Next ==
    \/ \E fault \in {"none", "count", "iter"} : Search(fault)
    \/ Clone(cli.max_clone, cli.clone_dir, "nonzero", FALSE)
    \/ CloneNothing
    \/ \E format \in {"json", "csv"}, fails \in BOOLEAN :
        \E pandas \in (IF format = "csv" THEN {"absent", "works", "fails"}
                       ELSE {"absent"}) :
            Export(format, pandas, fails)

Spec == Init /\ [][Next]_vars

----------------------------------------------------------------------------
(* Properties of the cloner, checked under Spec *)

InRange(score) == 0 <= score /\ score <= 100

\* C2: the relevance score is always within [0.0, 1.0]: every value the
\* scorer returns, for the repositories the live source can yield and for
\* the candidates of the last search before the filter, and the score of
\* every candidate held in the results after any sequence of search, clone
\* and export calls.
C2_RelevanceInRange ==
    /\ \A i \in 1..Len(results) : InRange(results[i].industry_relevance)
    /\ last.op = "search" =>
        \A i \in 1..Len(last.unfiltered) :
            InRange(last.unfiltered[i].industry_relevance)
    /\ \A item \in LivePool :
        InRange(CalculateIndustryRelevance(config, item.name,
                    item.description, item.topics))

\* ten sample candidates, the last with score 0.0, were all cloned
C2_Witness ==
    /\ last.op = "clone"
    /\ Len(results) = 10
    /\ results[10].industry_relevance = 0
    /\ results[10].cloned
    /\ results[1].industry_relevance = 45

\* the key the claim names for the configured clone.sort_by
ClaimedSortKey(r) ==
    IF config.sort_by = {"industry_relevance"} THEN r.industry_relevance
    ELSE r.stars

\* C6: the selector orders all candidates by descending sort key, the key
\* being the relevance score for clone.sort_by "industry_relevance" and the
\* stars for "stars", for an unrecognized value and for a missing one;
\* candidates with equal keys keep their discovery order.
C6_SortedDescendingStable ==
    last.op = "clone" =>
        /\ Len(last.sorted) = Len(results)
        /\ {last.sorted[a] : a \in 1..Len(last.sorted)} = 1..Len(results)
        /\ \A a, b \in 1..Len(last.sorted) :
            a < b =>
                /\ ClaimedSortKey(results[last.sorted[a]])
                    >= ClaimedSortKey(results[last.sorted[b]])
                /\ ClaimedSortKey(results[last.sorted[a]])
                    = ClaimedSortKey(results[last.sorted[b]])
                   => last.sorted[a] < last.sorted[b]

\* an unrecognized sort key, two candidates with equal stars found after a
\* candidate with fewer stars
C6_Witness ==
    /\ last.op = "clone"
    /\ config.sort_by = {"name"}
    /\ Len(results) = 3
    /\ results[1].stars < results[2].stars
    /\ results[2].stars = results[3].stars
    /\ last.sorted = <<2, 3, 1>>

\* C7: for every limit >= 1 the selected candidates are the first
\* min(limit, n) elements of the sorted sequence, never more than limit; for
\* stars [10, 50, 30], sort by stars and limit 2 they are the candidates with
\* stars [50, 30] in that order.
C7_FirstLimitSelected ==
    (last.op = "clone" /\ last.limit >= 1) =>
        /\ Len(last.attempted) = Min(last.limit, Len(results))
        /\ Len(last.attempted) <= last.limit
        /\ \A a \in 1..Len(last.attempted) : last.attempted[a] = last.sorted[a]
        /\ (/\ last.limit = 2
            /\ [i \in 1..Len(results) |-> results[i].stars] = <<10, 50, 30>>
            /\ config.sort_by \in {{}, {"stars"}})
           => [a \in 1..Len(last.attempted) |->
                  results[last.attempted[a]].stars] = <<50, 30>>

\* the scenario: stars [10, 50, 30], limit 2
C7_Witness ==
    /\ last.op = "clone"
    /\ last.limit = 2
    /\ [i \in 1..Len(results) |-> results[i].stars] = <<10, 50, 30>>
    /\ last.attempted = <<2, 3>>
    /\ last.returned = <<2, 3>>

\* C8: for every limit <= 0 the selector selects nothing:
\* clone_repositories attempts no materialization and returns an empty list.
C8_NonPositiveLimitSelectsNothing ==
    (last.op = "clone" /\ last.limit <= 0) =>
        /\ last.attempted = <<>>
        /\ last.returned = <<>>

\* positions of the unfiltered list whose score reaches the threshold
KeptPositions ==
    {i \in 1..Len(last.unfiltered) :
        last.unfiltered[i].industry_relevance >= last.threshold}

\* C9: the search, live or synthetic, returns the candidates whose score is
\* at or above the minimum relevance, in their order, and none whose score
\* is below it; with threshold 0.0 it returns the unfiltered list.
C9_FilterByThreshold ==
    last.op = "search" =>
        /\ Len(results) = Cardinality(KeptPositions)
        /\ \A j \in 1..Len(results) :
            \E i \in KeptPositions :
                /\ Cardinality({k \in KeptPositions : k <= i}) = j
                /\ results[j] = last.unfiltered[i]
        /\ last.threshold = 0 => results = last.unfiltered

\* a live search with threshold 0.5 that keeps a candidate scoring exactly
\* 0.5 found after one that it drops
C9_Witness ==
    /\ last.op = "search"
    /\ last.final = "LIVE"
    /\ last.threshold = 50
    /\ Len(last.unfiltered) = 3
    /\ last.unfiltered[1].industry_relevance = 0
    /\ last.unfiltered[2].industry_relevance = 50
    /\ Len(results) = 2
    /\ results[1] = last.unfiltered[2]

\* C10: a search starts in LIVE exactly when the client library is
\* available, the resolved credential is not empty and the connection test
\* at construction succeeded; otherwise it starts in SYNTHETIC and makes no
\* call to the live source.
C10_InitialState ==
    last.op = "search" =>
        /\ last.start \in {"LIVE", "SYNTHETIC"}
        /\ last.start = "LIVE" <=>
            (/\ github_available
             /\ Len(ResolveToken(config, envToken)) > 0
             /\ connection = "ok")
        /\ last.start = "SYNTHETIC" => (last.liveCalls = 0 /\ last.final = "SYNTHETIC")

\* library and credential are there, the connection test failed, and the
\* search ran on sample data
C10_Witness ==
    /\ last.op = "search"
    /\ github_available
    /\ Len(ResolveToken(config, envToken)) > 0
    /\ connection = "failed"
    /\ last.start = "SYNTHETIC"
    /\ Len(results) > 0

----------------------------------------------------------------------------
(* search_repositories, statement by statement *)

MaxCalls == 2
FetchFeedLen == 12

RateCheckEvery == 10
RateFloor == 5
RateBuffer == 5

\* messages of logger.warning and logger.error; logger.info is not recorded
LogNotAvailable == "warning: GitHub API not available, using sample data"
LogSearchFailed == "error: GitHub API search failed"
LogFallingBack == "warning: Falling back to sample data mode"
LogItemFailed == "error: Error processing repository"
LogRateLow == "warning: GitHub API rate limit low"
LogRateWaiting == "warning: Waiting until reset"
LogRateFailed == "error: Error checking rate limit"

\* a result list long enough for a rate limit check; get_topics raises on
\* the third repository
FetchFeed ==
    [i \in 1..FetchFeedLen |->
        LiveItem(IF i % 2 = 0 THEN <<"x">> ELSE <<"p","k","-","a","b">>,
                 <<"o">> \o NatToStr(i),
                 IF i % 3 = 0 THEN <<"a"," ","P","K","b">> ELSE <<>>,
                 IF i % 2 = 0 THEN <<>> ELSE << <<"a","b">> >>,
                 FetchFeedLen + 10 - i,
                 i = 3)]

\* what get_rate_limit() answers
RateReports ==
    { [raises |-> FALSE, remaining |-> 4, untilReset |-> 30],
      [raises |-> FALSE, remaining |-> 0, untilReset |-> 0 - 10],
      [raises |-> FALSE, remaining |-> 5, untilReset |-> 30],
      [raises |-> TRUE, remaining |-> 0, untilReset |-> 0] }

\* (reset_time - now).total_seconds() + 5
WaitSeconds(report) == report.untilReset + RateBuffer

\* a mutant of FetchBegin: a call after a degraded one starts on sample data
FetchBeginSticky ==
    /\ run.pc = "idle"
    /\ run.calls < MaxCalls
    /\ \E live \in {StartsLive(github_available, github)
                     /\ run.state # "DEGRADED"} :
        run' = [pc |-> IF live THEN "count" ELSE "sample",
                calls |-> run.calls + 1,
                start |-> IF live THEN "LIVE" ELSE "SYNTHETIC",
                state |-> IF live THEN "LIVE" ELSE "SYNTHETIC",
                query |-> BuildQuery(config, cli.query, cli.kwargs),
                i |-> 0, repositories |-> <<>>, liveCalls |-> 0,
                raised |-> "none", remaining |-> NoReport, wait |-> 0,
                log |-> IF live THEN <<>> ELSE <<LogNotAvailable>>]
    /\ UNCHANGED <<config, envToken, github_available, connection, github,
                   results, last, cli, liveFeed, candA, candB, scoreA, scoreB,
                   git_available>>

\* lines 132-156 and 224: the query is built and the branch is taken
FetchBegin ==
    /\ run.pc = "idle"
    /\ run.calls < MaxCalls
    /\ \E live \in {StartsLive(github_available, github)} :
        run' = [pc |-> IF live THEN "count" ELSE "sample",
                calls |-> run.calls + 1,
                start |-> IF live THEN "LIVE" ELSE "SYNTHETIC",
                state |-> IF live THEN "LIVE" ELSE "SYNTHETIC",
                query |-> BuildQuery(config, cli.query, cli.kwargs),
                i |-> 0, repositories |-> <<>>, liveCalls |-> 0,
                raised |-> "none", remaining |-> NoReport, wait |-> 0,
                log |-> IF live THEN <<>> ELSE <<LogNotAvailable>>]
    /\ UNCHANGED <<config, envToken, github_available, connection, github,
                   results, last, cli, liveFeed, candA, candB, scoreA, scoreB,
                   git_available>>

\* a mutant of Degrade: the failed call is made again
DegradeRetry(r, which) ==
    [r EXCEPT !.pc = "count", !.raised = which, !.liveCalls = @ + 1,
              !.log = @ \o <<LogSearchFailed>>]

\* lines 220-222: the exception of the live source is caught and logged,
\* and the call goes on to the sample data
Degrade(r, which) ==
    [r EXCEPT !.pc = "sample", !.state = "DEGRADED", !.raised = which,
              !.liveCalls = @ + 1,
              !.log = @ \o <<LogSearchFailed, LogFallingBack>>]

\* line 159: self.github.search_repositories(query).totalCount
FetchCount(raises) ==
    /\ run.pc = "count"
    /\ run' = IF raises THEN Degrade(run, "count")
              ELSE [run EXCEPT !.pc = "iterate", !.liveCalls = @ + 1]
    /\ UNCHANGED <<config, envToken, github_available, connection, github,
                   results, last, cli, liveFeed, candA, candB, scoreA, scoreB,
                   git_available>>

\* a mutant of ProcessItem: the exception of one repository ends the loop
ProcessItemFatal(r, item) ==
    IF item.raises
    THEN [Degrade(r, "iter") EXCEPT !.i = @ + 1, !.liveCalls = @ + 1,
                                    !.log = @ \o <<LogItemFailed>>]
    ELSE [r EXCEPT
            !.i = @ + 1, !.liveCalls = @ + 2,
            !.repositories = Append(@,
                RepoData(item.name, item.owner, item.description, item.stars,
                    CalculateIndustryRelevance(config, item.name,
                        item.description, item.topics))),
            !.pc = IF (Len(r.repositories) + 1) % RateCheckEvery = 0
                   THEN "ratecheck" ELSE "iterate"]

\* lines 176-209: one repository is processed
ProcessItem(r, item) ==
    IF item.raises
    THEN [r EXCEPT !.i = @ + 1, !.liveCalls = @ + 2,
                   !.log = @ \o <<LogItemFailed>>]
    ELSE [r EXCEPT
            !.i = @ + 1, !.liveCalls = @ + 2,
            !.repositories = Append(@,
                RepoData(item.name, item.owner, item.description, item.stars,
                    CalculateIndustryRelevance(config, item.name,
                        item.description, item.topics))),
            !.pc = IF (Len(r.repositories) + 1) % RateCheckEvery = 0
                   THEN "ratecheck" ELSE "iterate"]

\* lines 172-209: the iterator is asked for the next repository, which
\* raises, ends the loop, or yields a repository to process
FetchIterate(raises) ==
    /\ run.pc = "iterate"
    /\ run' =
        IF raises THEN Degrade(run, "iter")
        ELSE IF run.i >= Len(liveFeed)
        THEN [run EXCEPT !.pc = "filter", !.liveCalls = @ + 1]
        ELSE IF Len(run.repositories) >=
                Get(cli.kwargs.max_results,
                    Get(config.max_results, DefaultMaxResultsLive))
        THEN [run EXCEPT !.pc = "filter", !.i = @ + 1, !.liveCalls = @ + 1]
        ELSE ProcessItem(run, liveFeed[run.i + 1])
    /\ UNCHANGED <<config, envToken, github_available, connection, github,
                   results, last, cli, liveFeed, candA, candB, scoreA, scoreB,
                   git_available>>

\* _check_rate_limit, lines 436-457, up to time.sleep
RateCheck(report) ==
    /\ run.pc = "ratecheck"
    /\ run' =
        IF ~StartsLive(github_available, github)
        THEN [run EXCEPT !.pc = "iterate"]
        ELSE IF report.raises
        THEN [run EXCEPT !.pc = "iterate", !.liveCalls = @ + 1,
                         !.remaining = NoReport,
                         !.log = @ \o <<LogRateFailed>>]
        ELSE IF report.remaining < RateFloor
        THEN [run EXCEPT
                !.pc = IF WaitSeconds(report) > 0 THEN "sleep" ELSE "iterate",
                !.wait = IF WaitSeconds(report) > 0 THEN WaitSeconds(report)
                         ELSE 0,
                !.remaining = report.remaining,
                !.liveCalls = @ + 1,
                !.log = @ \o <<LogRateLow, LogRateWaiting>>]
        ELSE [run EXCEPT !.pc = "iterate", !.liveCalls = @ + 1,
                         !.remaining = report.remaining]
    /\ UNCHANGED <<config, envToken, github_available, connection, github,
                   results, last, cli, liveFeed, candA, candB, scoreA, scoreB,
                   git_available>>

\* a mutant of Wake: the call gives up the live source after the wait
WakeDegraded ==
    /\ run.pc = "sleep"
    /\ run' = [run EXCEPT !.pc = "sample", !.state = "DEGRADED", !.wait = 0]
    /\ UNCHANGED <<config, envToken, github_available, connection, github,
                   results, last, cli, liveFeed, candA, candB, scoreA, scoreB,
                   git_available>>

\* a mutant of Wake: the sleep does not end
WakeNever ==
    /\ run.pc = "sleep"
    /\ UNCHANGED vars

\* line 454: time.sleep(wait_seconds) returns and the loop goes on
Wake ==
    /\ run.pc = "sleep"
    /\ run' = [run EXCEPT !.pc = "iterate", !.wait = 0]
    /\ UNCHANGED <<config, envToken, github_available, connection, github,
                   results, last, cli, liveFeed, candA, candB, scoreA, scoreB,
                   git_available>>

\* what the call leaves in `last` when it returns
SearchRecord(r, unfiltered) ==
    [op |-> "search", start |-> r.start, final |-> r.state,
     liveCalls |-> r.liveCalls, unfiltered |-> unfiltered,
     threshold |-> MinRelevance(config, cli.kwargs)]

\* lines 211-218: the filter, self.results and the return of a live search
FetchFilter ==
    /\ run.pc = "filter"
    /\ results' = FilterByMinRelevance(config, cli.kwargs, run.repositories)
    /\ last' = SearchRecord(run, run.repositories)
    /\ run' = [run EXCEPT !.pc = "idle"]
    /\ UNCHANGED <<config, envToken, github_available, connection, github,
                   cli, liveFeed, candA, candB, scoreA, scoreB, git_available>>

\* a mutant of FetchSample: the sample data follows the repositories the
\* live source had yielded
FetchSampleAppend ==
    /\ run.pc = "sample"
    /\ \E unfiltered \in {run.repositories \o
                          SampleRepositories(config, cli.kwargs, run.query)} :
        /\ results' = FilterByMinRelevance(config, cli.kwargs, unfiltered)
        /\ last' = SearchRecord(run, unfiltered)
    /\ run' = [run EXCEPT !.pc = "idle"]
    /\ UNCHANGED <<config, envToken, github_available, connection, github,
                   cli, liveFeed, candA, candB, scoreA, scoreB, git_available>>

\* lines 226-273: the sample data, the filter, self.results and the return
FetchSample ==
    /\ run.pc = "sample"
    /\ \E unfiltered \in {SampleRepositories(config, cli.kwargs, run.query)} :
        /\ results' = FilterByMinRelevance(config, cli.kwargs, unfiltered)
        /\ last' = SearchRecord(run, unfiltered)
    /\ run' = [run EXCEPT !.pc = "idle"]
    /\ UNCHANGED <<config, envToken, github_available, connection, github,
                   cli, liveFeed, candA, candB, scoreA, scoreB, git_available>>

\* configurations of the calls followed statement by statement
FetchConfigs ==
    {TokenOnlyConfig,
     [TokenOnlyConfig EXCEPT !.query = {S_automation},
                             !.industry_keywords = {<< <<"A","B">> >>}]}

\* the arguments of those calls
FetchCalls ==
    {DefaultCall,
     [DefaultCall EXCEPT !.query = {S_Food_Packaging}],
     [DefaultCall EXCEPT !.kwargs = [NoKwargs EXCEPT !.max_results = {2},
                                                     !.min_relevance = {40}]]}
    \cup
    {[DefaultCall EXCEPT !.kwargs = [NoKwargs EXCEPT !.max_results = {n}]] :
        n \in {0 - 1, 0, 3, SampleCap + 2}}

\* the state after GitHubAutoCloner.__init__, before any search
FetchInit ==
    /\ config \in FetchConfigs
    /\ cli \in FetchCalls
    /\ liveFeed = FetchFeed
    /\ envToken = {}
    /\ github_available \in BOOLEAN
    /\ IF ConnectionTested(config, envToken, github_available)
       THEN connection \in {"ok", "failed"}
       ELSE connection = "notrun"
    /\ github = InitGithubClient(config, envToken, github_available, connection)
    /\ results = <<>>
    /\ last = [op |-> "init"]
    /\ candA = NoCandidate
    /\ candB = NoCandidate
    /\ scoreA = NoScore
    /\ scoreB = NoScore
    /\ git_available = FALSE
    /\ run = NoRun

\* the steps of a call in progress
FetchStep ==
    \/ \E raises \in BOOLEAN : FetchCount(raises)
    \/ \E raises \in BOOLEAN : FetchIterate(raises)
    \/ \E report \in RateReports : RateCheck(report)
    \/ Wake
    \/ FetchFilter
    \/ FetchSample

FetchNext ==
    \/ FetchBegin
    \/ FetchStep

FetchSpec == FetchInit /\ [][FetchNext]_vars

\* every statement of a call in progress is eventually executed: the calls
\* to the live source return or raise, and time.sleep returns
FairFetchSpec == FetchInit /\ [][FetchNext]_vars /\ WF_vars(FetchStep)

----------------------------------------------------------------------------
(* Properties of the source chain, checked under FetchSpec *)

Logged(message) == \E k \in 1..Len(run.log) : run.log[k] = message

\* C11: when the result count or the result iteration of the live source
\* raises, the call is DEGRADED: the failure is logged, the call makes no
\* further call to the live source, and it returns the sample candidates
\* instead of raising.
C11_LiveFailureDegrades ==
    /\ [](run.raised # "none" =>
            /\ run.state = "DEGRADED"
            /\ run.pc \in {"sample", "idle"}
            /\ Logged(LogSearchFailed)
            /\ run.pc = "idle" =>
                /\ last.op = "search"
                /\ last.final = "DEGRADED"
                /\ last.unfiltered =
                    SampleRepositories(config, cli.kwargs, run.query)
                /\ results =
                    FilterByMinRelevance(config, cli.kwargs, last.unfiltered))
    /\ [][(run.raised # "none" /\ run'.calls = run.calls)
            => run'.liveCalls = run.liveCalls]_vars

\* the iteration raised after five repositories, and the call returned
\* sample candidates
C11_Witness ==
    /\ run.raised = "iter"
    /\ run.i = 5
    /\ run.pc = "idle"
    /\ last.op = "search"
    /\ last.final = "DEGRADED"
    /\ Len(results) > 0

\* C12: when the rate limit check of a live fetch reports fewer than 5
\* remaining calls, the call sleeps until the reset (when the reset is still
\* ahead) and then goes on fetching from the live source with the candidates
\* collected so far; it does not degrade.
C12_LowQuotaSuspendsAndResumes ==
    [][/\ (/\ run.pc = "ratecheck"
           /\ run'.remaining # NoReport
           /\ run'.remaining < RateFloor)
          => /\ run'.pc = (IF run'.wait > 0 THEN "sleep" ELSE "iterate")
             /\ run'.state = "LIVE"
             /\ run'.repositories = run.repositories
       /\ run.pc = "sleep"
          => /\ run'.pc = "iterate"
             /\ run'.state = "LIVE"
             /\ run'.repositories = run.repositories
             /\ run'.i = run.i]_vars

\* a live search that slept after ten candidates and returned eleven
C12_Witness ==
    /\ run.pc = "idle"
    /\ run.remaining = 4
    /\ Logged(LogRateWaiting)
    /\ last.op = "search"
    /\ last.final = "LIVE"
    /\ Len(last.unfiltered) = FetchFeedLen - 1

\* C13: within one call the state never goes back to LIVE after DEGRADED,
\* and every new call starts in LIVE or SYNTHETIC by the rule of the initial
\* state, whether or not an earlier call degraded.
C13_NoLiveAfterDegraded ==
    [][/\ (run.state = "DEGRADED" /\ run'.calls = run.calls)
          => run'.state = "DEGRADED"
       /\ run'.calls # run.calls
          => /\ run'.start =
                  (IF /\ github_available
                      /\ Len(ResolveToken(config, envToken)) > 0
                      /\ connection = "ok"
                   THEN "LIVE" ELSE "SYNTHETIC")
             /\ run'.state = run'.start
             /\ run'.liveCalls = 0]_vars

\* the call after a degraded call is fetching from the live source
C13_Witness ==
    /\ run.calls = 2
    /\ run.state = "LIVE"
    /\ run.pc = "iterate"
    /\ last.op = "search"
    /\ last.final = "DEGRADED"

\* the query the caller asked for: the argument, or search.query
OriginalQuery == Get(cli.query, Get(config.query, <<>>))

\* C14: every candidate generated from the sample data, by a call that
\* started on it or by one that degraded, has a description that contains
\* the query the caller asked for.
C14_SampleDescriptionEchoesQuery ==
    (last.op = "search" /\ last.final \in {"SYNTHETIC", "DEGRADED"}) =>
        \A i \in 1..Len(last.unfiltered) :
            Contains(OriginalQuery, last.unfiltered[i].description)

\* the result count raised, and the call returned sample candidates for the
\* configured query
C14_Witness ==
    /\ last.op = "search"
    /\ last.final = "DEGRADED"
    /\ run.raised = "count"
    /\ run.pc = "idle"
    /\ OriginalQuery = S_automation
    /\ Len(last.unfiltered) = DefaultMaxResultsSample

\* C15: every call of search_repositories returns a candidate list: a call
\* in progress always reaches its return, whatever the live source does.
C15_SearchReturns ==
    (run.pc # "idle") ~> (run.pc = "idle" /\ last.op = "search")

\* a call that slept for the rate limit, then lost the live source, and
\* returned
C15_Witness ==
    /\ run.pc = "idle"
    /\ run.remaining = 4
    /\ run.raised = "iter"
    /\ last.op = "search"
    /\ Len(results) > 0

----------------------------------------------------------------------------
(* clone_repositories called again and again on the results of a search *)

S_other_dir == <<"d","2">>

\* two repositories, the one with the fewest stars found first
CloneFeeds == {f \in LiveFeeds : Len(f) = 2 /\ f[1].stars = 10}

\* searches that return at most two candidates, all of them to be cloned
CloneCall ==
    [DefaultCall EXCEPT !.kwargs = [NoKwargs EXCEPT !.max_results = {2}]]

\* the state after GitHubAutoCloner.__init__, with or without a token and
\* with or without the git library
CloneInit ==
    /\ config \in CredentialConfigs
    /\ cli = CloneCall
    /\ liveFeed \in CloneFeeds
    /\ envToken = {}
    /\ github_available = TRUE
    /\ connection = IF ConnectionTested(config, envToken, github_available)
                    THEN "ok" ELSE "notrun"
    /\ github = InitGithubClient(config, envToken, github_available, connection)
    /\ results = <<>>
    /\ last = [op |-> "init"]
    /\ candA = NoCandidate
    /\ candB = NoCandidate
    /\ scoreA = NoScore
    /\ scoreB = NoScore
    /\ git_available \in BOOLEAN
    /\ run = NoRun

CloneNext ==
    \/ Search("none")
    \/ \E dirArg \in {{}, {S_other_dir}}, failure \in {"nonzero", "raise"},
          echo \in BOOLEAN :
            Clone(cli.max_clone, dirArg, failure, echo)
    \/ CloneNothing

CloneSpec == CloneInit /\ [][CloneNext]_vars

----------------------------------------------------------------------------
(* Properties of clone_repositories, checked under CloneSpec *)

\* C16: over every sequence of clone_repositories calls, also with
\* different clone directories, a candidate is marked cloned with a path at
\* most once: a candidate that is cloned stays cloned and keeps its path.
C16_MaterializedOnce ==
    /\ [](\A i \in 1..Len(results) :
            results[i].cloned <=> results[i].clone_path # <<>>)
    /\ [][last'.op = "clone" =>
            \A i \in 1..Len(results) :
                results[i].cloned =>
                    /\ results'[i].cloned
                    /\ results'[i].clone_path = results[i].clone_path]_vars

\* C17: clone_repositories attempts every selected candidate once, in the
\* selected order, whatever the outcome of the attempts before it.
C17_EverySelectedAttempted ==
    last.op = "clone" =>
        /\ last.selected = SliceFirst(last.sorted, last.limit)
        /\ last.attempted = last.selected

\* the first of two attempts failed and the second one succeeded
C17_Witness ==
    /\ last.op = "clone"
    /\ last.outcomes = <<FALSE, TRUE>>
    /\ Len(last.attempted) = 2
    /\ last.returned = <<last.attempted[2]>>
    /\ results[last.attempted[2]].cloned

\* the selected candidates whose attempt succeeded, in selected order
Succeeded(call) ==
    SelectSeq(call.selected,
        LAMBDA p : \E k \in 1..Len(call.selected) :
                        call.selected[k] = p /\ call.outcomes[k])

\* C18: a call of clone_repositories sets flag and path of exactly the
\* candidates whose attempt succeeded and leaves every other candidate as it
\* was, and it returns the candidates whose attempt succeeded, in selected
\* order.
C18_OutcomeOnAttemptedOnly ==
    [][last'.op = "clone" =>
        /\ last'.returned = Succeeded(last')
        /\ Len(results') = Len(results)
        /\ \A i \in 1..Len(results) :
            results'[i] =
                IF \E k \in 1..Len(last'.returned) : last'.returned[k] = i
                THEN [results[i] EXCEPT
                        !.cloned = TRUE,
                        !.clone_path = TargetDir(last'.dir, results[i])]
                ELSE results[i]]_vars

\* the first attempt succeeded and the second failed: only the first
\* candidate is returned and marked
C18_Witness ==
    /\ last.op = "clone"
    /\ last.outcomes = <<TRUE, FALSE>>
    /\ last.returned = <<last.selected[1]>>
    /\ results[last.selected[1]].cloned
    /\ ~results[last.selected[2]].cloned
    /\ results[last.selected[2]].clone_path = <<>>

\* C20: no error message logged by clone_repositories contains the token.
C20_NoTokenInLog ==
    (last.op = "clone" /\ Len(ResolveToken(config, envToken)) > 0) =>
        \A k \in 1..Len(last.log) :
            ~Contains(ResolveToken(config, envToken), last.log[k])

----------------------------------------------------------------------------
(* The stored score and the scorer, checked under Spec *)

\* the topics of the repository a candidate was made from: RepoData keeps
\* none, and the sample candidates have none
TopicsOf(r) ==
    IF \E item \in LivePool : item.owner = r.owner
    THEN (CHOOSE item \in LivePool : item.owner = r.owner).topics
    ELSE <<>>

\* C19: every candidate in the results of a search, live or on sample data,
\* holds the score the scorer computes from its name, description and
\* topics and the configured keywords.
C19_StoredScoreIsScorerValue ==
    last.op = "search" =>
        \A i \in 1..Len(results) :
            results[i].industry_relevance =
                CalculateIndustryRelevance(config, results[i].name,
                    results[i].description, TopicsOf(results[i]))

\* the same for the candidates of a live search only
LiveScoreIsScorerValue ==
    (last.op = "search" /\ last.final = "LIVE") =>
        \A i \in 1..Len(results) :
            results[i].industry_relevance =
                CalculateIndustryRelevance(config, results[i].name,
                    results[i].description, TopicsOf(results[i]))

----------------------------------------------------------------------------
(* Properties of export_results, checked under Spec *)

\* C21: whenever writing the output file fails, for JSON and for CSV with
\* pandas or with the basic writer, export_results logs the error and
\* returns the empty string.
C21_FailedExportReturnsEmpty ==
    (last.op = "export" /\ last.failed) =>
        /\ last.value = <<>>
        /\ Len(last.log) > 0

\* the credential the environment and the configuration file stand for:
\* the value of GITHUB_TOKEN when it is set, github_token otherwise
EnvironmentFirst ==
    IF envToken # {} THEN CHOOSE t \in envToken : TRUE
    ELSE IF config.github_token # {} THEN CHOOSE t \in config.github_token : TRUE
    ELSE <<>>

\* C23: the value of GITHUB_TOKEN, when it is set, is the credential of the
\* client and of every clone URL, whatever the configuration file says;
\* github_token is used only when the variable is not set.
C23_EnvironmentTokenFirst ==
    /\ github = "client" => Len(EnvironmentFirst) > 0
    /\ (/\ Len(EnvironmentFirst) > 0
        /\ github_available
        /\ connection = "ok") => github = "client"
    /\ last.op = "clone" =>
        /\ Len(last.urls) = Len(last.attempted)
        /\ \A k \in 1..Len(last.urls) :
            last.urls[k] =
                IF Len(EnvironmentFirst) > 0
                THEN S_https \o EnvironmentFirst \o <<"@">> \o S_github_com
                        \o <<"/">> \o results[last.attempted[k]].owner
                        \o <<"/">> \o results[last.attempted[k]].name
                        \o S_dot_git
                ELSE CloneUrlOf(results[last.attempted[k]])

\* both are set, and a clone attempt was made with the value of the
\* environment in its URL
C23_Witness ==
    /\ envToken = {TokenEnv}
    /\ config.github_token = {TokenConfig}
    /\ github = "client"
    /\ last.op = "clone"
    /\ Len(last.urls) > 0
    /\ Contains(TokenEnv, last.urls[1])
    /\ ~Contains(TokenConfig, last.urls[1])

----------------------------------------------------------------------------
(* main: one run of the command line *)

ExitSuccess == 0
ExitFailure == 1

\* the process has ended with sys.exit(code), or by returning from main
ExitRecord(code, cause) == [op |-> "exit", code |-> code, cause |-> cause]

\* command lines of the runs: the configuration file is there and loads
\* ("ok"), is missing, is not YAML ("malformed"), or loads as nothing
\* ("empty")
MainCalls ==
    {[CloneCall EXCEPT !.config_file = c] :
        c \in {"missing", "malformed", "empty"}}
    \cup
    {[CloneCall EXCEPT !.search_only = so, !.export_format = f,
                       !.kwargs = [NoKwargs EXCEPT !.max_results = {2},
                                                   !.min_relevance = t]] :
        so \in BOOLEAN, f \in {"json", "csv"}, t \in {{}, {50}}}

\* what the live source yields: nothing, one repository that matches no
\* keyword, or two repositories
MainFeeds ==
    {<<>>} \cup {f \in LiveFeeds : Len(f) = 1 /\ f[1].owner = <<"o","3">>}
           \cup {f \in CloneFeeds : f[2].stars = 50}

\* before GitHubAutoCloner(args.config): config is what the file holds
MainInit ==
    /\ config \in {TokenOnlyConfig,
                   [TokenOnlyConfig EXCEPT
                        !.industry_keywords = {<< <<"A","B">> >>}]}
    /\ cli \in MainCalls
    /\ liveFeed \in MainFeeds
    /\ envToken = {}
    /\ github_available \in BOOLEAN
    /\ connection = IF ConnectionTested(config, envToken, github_available)
                    THEN "ok" ELSE "notrun"
    /\ github = InitGithubClient(config, envToken, github_available, connection)
    /\ results = <<>>
    /\ last = [op |-> "start"]
    /\ candA = NoCandidate
    /\ candB = NoCandidate
    /\ scoreA = NoScore
    /\ scoreB = NoScore
    /\ git_available = TRUE
    /\ run = NoRun

\* lines 622-624 with _load_config: a missing or malformed file ends the
\* process with sys.exit(1); a file that loads as None makes
\* _init_github_client raise, which main catches at line 693
MainConstruct ==
    /\ last.op = "start"
    /\ last' = IF cli.config_file = "ok" THEN [op |-> "init"]
               ELSE IF cli.config_file \in {"missing", "malformed"}
               THEN ExitRecord(ExitFailure, "config")
               ELSE ExitRecord(ExitFailure, "error")
    /\ UNCHANGED <<config, envToken, github_available, connection, github,
                   results, cli, liveFeed, candA, candB, scoreA, scoreB,
                   git_available, run>>

\* line 649: cloner.search_repositories(args.query, **search_kwargs)
MainSearch(fault) ==
    /\ last.op = "init"
    /\ Search(fault)

\* a mutant of MainNoResults: the empty search ends the run as a failure
MainNoResultsFails ==
    /\ last.op = "search"
    /\ Len(results) = 0
    /\ last' = ExitRecord(ExitFailure, "no_results")
    /\ UNCHANGED <<config, envToken, github_available, connection, github,
                   results, cli, liveFeed, candA, candB, scoreA, scoreB,
                   git_available, run>>

\* lines 658-661: no repositories, sys.exit(0)
MainNoResults ==
    /\ last.op = "search"
    /\ Len(results) = 0
    /\ last' = ExitRecord(ExitSuccess, "no_results")
    /\ UNCHANGED <<config, envToken, github_available, connection, github,
                   results, cli, liveFeed, candA, candB, scoreA, scoreB,
                   git_available, run>>

\* a mutant of MainClone: --search-only is not looked at
MainCloneAlways(failure, echo) ==
    /\ last.op = "search"
    /\ Len(results) > 0
    /\ Clone(cli.max_clone, cli.clone_dir, failure, echo)

\* lines 664-670: clone_repositories unless --search-only was given
MainClone(failure, echo) ==
    /\ last.op = "search"
    /\ Len(results) > 0
    /\ ~cli.search_only
    /\ Clone(cli.max_clone, cli.clone_dir, failure, echo)

\* line 342: the clone directory cannot be made; the exception leaves
\* clone_repositories and main catches it at line 693
MainCloneRaises ==
    /\ last.op = "search"
    /\ Len(results) > 0
    /\ ~cli.search_only
    /\ last' = ExitRecord(ExitFailure, "error")
    /\ UNCHANGED <<config, envToken, github_available, connection, github,
                   results, cli, liveFeed, candA, candB, scoreA, scoreB,
                   git_available, run>>

\* lines 678-685: export_results; --export-format has the default "json",
\* so the condition of line 678 is always true
MainExport(pandas, fails) ==
    /\ \/ last.op = "clone"
       \/ last.op = "search" /\ Len(results) > 0 /\ cli.search_only
    /\ Export(cli.export_format, pandas, fails)

\* lines 687-688: main returns
MainDone ==
    /\ last.op = "export"
    /\ last' = ExitRecord(ExitSuccess, "done")
    /\ UNCHANGED <<config, envToken, github_available, connection, github,
                   results, cli, liveFeed, candA, candB, scoreA, scoreB,
                   git_available, run>>

\* lines 690-692: KeyboardInterrupt anywhere inside the try of main
MainInterrupt ==
    /\ last.op # "exit"
    /\ last' = ExitRecord(ExitFailure, "interrupt")
    /\ UNCHANGED <<config, envToken, github_available, connection, github,
                   results, cli, liveFeed, candA, candB, scoreA, scoreB,
                   git_available, run>>

MainNext ==
    \/ MainConstruct
    \/ \E fault \in {"none", "count", "iter"} : MainSearch(fault)
    \/ MainNoResults
    \/ \E echo \in BOOLEAN : MainClone("raise", echo)
    \/ MainCloneRaises
    \/ \E pandas \in {"absent", "fails"}, fails \in BOOLEAN :
            MainExport(pandas, fails)
    \/ MainDone
    \/ MainInterrupt

MainSpec == MainInit /\ [][MainNext]_vars

----------------------------------------------------------------------------
(* Properties of the command-line run, checked under MainSpec *)

\* C22: the run ends with exit code 0 when it completes and when the search
\* yields no candidates, and with exit code 1 on an interruption, on an
\* unhandled error and on a missing or malformed configuration file.
C22_ExitCodes ==
    last.op = "exit" =>
        /\ last.cause \in {"done", "no_results", "interrupt", "error", "config"}
        /\ last.cause \in {"done", "no_results"} => last.code = 0
        /\ last.cause \in {"interrupt", "error", "config"} => last.code = 1

\* the configuration file is not YAML and the run has ended with code 1
C22_Witness ==
    /\ last.op = "exit"
    /\ cli.config_file = "malformed"
    /\ last.cause = "config"
    /\ last.code = 1

\* C24: with --search-only the run makes no clone attempt, every candidate
\* keeps flag false and an empty path, and the results of the search are
\* exported.
C24_SearchOnlyExportsUncloned ==
    /\ [](cli.search_only =>
            /\ last.op # "clone"
            /\ \A i \in 1..Len(results) :
                ~results[i].cloned /\ results[i].clone_path = <<>>)
    /\ [][(/\ cli.search_only
           /\ last.op = "search"
           /\ Len(results) > 0
           /\ last'.op # "exit")
          => /\ last'.op = "export"
             /\ ~last'.failed => last'.written = results]_vars

\* a --search-only run has exported its two candidates, none of them cloned
C24_Witness ==
    /\ cli.search_only
    /\ last.op = "export"
    /\ Len(last.written) = 2
    /\ ~last.written[1].cloned
    /\ ~last.written[2].cloned

\* C29: a live search that ends without an exception and with no candidate,
\* none found or none at or above the threshold, returns the empty list
\* and no sample data, and the run then exits with code 0 without a clone
\* attempt or an export (unless the user interrupts it).
C29_EmptyLiveSearchExits ==
    /\ []((/\ last.op = "search"
           /\ last.final = "LIVE"
           /\ \A i \in 1..Len(last.unfiltered) :
                last.unfiltered[i].industry_relevance < last.threshold)
          => results = <<>>)
    /\ []((last.op = "search" /\ last.final = "LIVE") =>
            \A i \in 1..Len(last.unfiltered) :
                \E k \in 1..Len(liveFeed) :
                    liveFeed[k].owner = last.unfiltered[i].owner)
    /\ [][(last.op = "search" /\ last.final = "LIVE" /\ Len(results) = 0)
          => /\ last'.op = "exit"
             /\ last'.cause # "interrupt" => last'.code = 0]_vars

\* the only repository found scored below the threshold, and the run has
\* ended with code 0
C29_Witness ==
    /\ last.op = "exit"
    /\ last.cause = "no_results"
    /\ last.code = 0
    /\ github = "client"
    /\ Len(liveFeed) = 1
    /\ cli.kwargs.min_relevance = {50}
    /\ results = <<>>

----------------------------------------------------------------------------
(* Items, sources and limits of a search, checked under FetchSpec *)

\* max_results of the call in progress, for the live loop
LiveLimit ==
    Get(cli.kwargs.max_results, Get(config.max_results, DefaultMaxResultsLive))

\* the repositories among the first n of the live source whose processing
\* does not raise
Kept(n) == SelectSeq(SubSeq(liveFeed, 1, n), LAMBDA item : ~item.raises)

InLiveLoop ==
    run.state = "LIVE" /\ run.pc \in {"iterate", "ratecheck", "sleep", "filter"}

\* C25: an exception raised while one repository of the live source is
\* processed leaves out that repository only: it is logged, it does not
\* count toward max_results, the call stays LIVE and goes on with the next
\* repository, and the repositories collected are the other ones in the
\* order of the source.
C25_ItemFailureSkipsItemOnly ==
    /\ [](InLiveLoop =>
            /\ Len(run.repositories) =
                    Min(Len(Kept(run.i)), Max(0, LiveLimit))
            /\ \A k \in 1..Len(run.repositories) :
                /\ run.repositories[k].owner = Kept(run.i)[k].owner
                /\ run.repositories[k].name = Kept(run.i)[k].name)
    /\ [][(/\ run.pc = "iterate"
           /\ run.state = "LIVE"
           /\ run.i < Len(liveFeed)
           /\ Len(run.repositories) < LiveLimit
           /\ liveFeed[run.i + 1].raises
           /\ run'.i = run.i + 1)
          => /\ run'.state = "LIVE"
             /\ run'.pc = "iterate"
             /\ run'.raised = "none"
             /\ run'.repositories = run.repositories
             /\ run'.log = Append(run.log, LogItemFailed)]_vars

\* with max_results 3 and the third repository failing, the call returned
\* the first, the second and the fourth
C25_Witness ==
    /\ cli.kwargs.max_results = {3}
    /\ last.op = "search"
    /\ last.final = "LIVE"
    /\ run.pc = "idle"
    /\ Len(results) = 3
    /\ results[1].owner = liveFeed[1].owner
    /\ results[2].owner = liveFeed[2].owner
    /\ results[3].owner = liveFeed[4].owner

IsSample(repo) == StartsAt(repo.owner, 1, S_example_user)

IsLive(repo) ==
    \E k \in 1..Len(liveFeed) :
        liveFeed[k].owner = repo.owner /\ liveFeed[k].name = repo.name

\* C27: the list a search returns and stores holds repositories of the live
\* source only or sample repositories only; after a failure of the live
\* source it holds sample repositories only, whatever the loop had
\* collected.
C27_NeverMixed ==
    last.op = "search" =>
        /\ \/ \A i \in 1..Len(results) : IsLive(results[i]) /\ ~IsSample(results[i])
           \/ \A i \in 1..Len(results) : IsSample(results[i]) /\ ~IsLive(results[i])
        /\ last.final = "LIVE" =>
            \A i \in 1..Len(last.unfiltered) : IsLive(last.unfiltered[i])
        /\ last.final # "LIVE" =>
            \A i \in 1..Len(last.unfiltered) :
                IsSample(last.unfiltered[i]) /\ ~IsLive(last.unfiltered[i])

\* the iteration failed after four repositories were collected, and the
\* call returned sample repositories
C27_Witness ==
    /\ last.op = "search"
    /\ last.final = "DEGRADED"
    /\ run.pc = "idle"
    /\ run.raised = "iter"
    /\ Len(run.repositories) = 4
    /\ Len(results) > 0
    /\ IsSample(results[1])

\* C28: a search returns at most max_results repositories, none when
\* max_results is zero or less, from the live source and from the sample
\* data alike, and never more than 10 sample repositories.
C28_AtMostMaxResults ==
    last.op = "search" =>
        /\ \A n \in cli.kwargs.max_results :
            /\ Len(results) <= Max(0, n)
            /\ Len(last.unfiltered) <= Max(0, n)
        /\ last.final # "LIVE" => Len(last.unfiltered) <= 10

\* max_results is 12 and the sample data holds 10 repositories
C28_Witness ==
    /\ last.op = "search"
    /\ last.final = "SYNTHETIC"
    /\ cli.kwargs.max_results = {SampleCap + 2}
    /\ Len(results) = 10

----------------------------------------------------------------------------
(* What clone_repositories and export_results leave alone, and what       *)
(* export_results writes, checked under Spec                               *)

\* the candidate with the flag and the path taken from another one
WithMaterialization(repo, other) ==
    [repo EXCEPT !.cloned = other.cloned, !.clone_path = other.clone_path]

\* C26: clone_repositories changes no field of a candidate but the flag and
\* the path, export_results changes no field at all, and both leave the
\* members and the order of the stored results as they were; the relevance
\* of a candidate is the one it was created with.
C26_OnlyFlagAndPathChange ==
    [][(last'.op \in {"clone", "export"}) =>
        /\ Len(results') = Len(results)
        /\ \A i \in 1..Len(results) :
            /\ WithMaterialization(results'[i], results[i]) = results[i]
            /\ results'[i].industry_relevance = results[i].industry_relevance
        /\ last'.op = "export" => results' = results]_vars

\* a clone call whose selector put another candidate than the first one
\* found in front, and which marked a candidate
C26_Witness ==
    /\ last.op = "clone"
    /\ Len(results) >= 2
    /\ last.sorted[1] # 1
    /\ Len(last.returned) > 0
    /\ results[last.returned[1]].cloned

\* C30: export_results writes the candidates of the last search, one
\* record each, in the order they were found and not in the order of the
\* selector, with the flag and the path the clone calls left; without
\* candidates it writes nothing and returns the empty string.
C30_ExportWritesResults ==
    last.op = "export" =>
        /\ Len(results) = 0 => (last.written = <<>> /\ last.value = <<>>)
        /\ (Len(results) > 0 /\ ~last.failed) =>
            /\ Len(last.written) = Len(results)
            /\ \A i \in 1..Len(results) : last.written[i] = results[i]
            /\ last.value = S_output_file

\* an export after a clone call marked a candidate, of results whose
\* order of discovery is not the order of the selector
C30_Witness ==
    /\ last.op = "export"
    /\ ~last.failed
    /\ Len(last.written) >= 2
    /\ SortedPositions(config, results)[1] # 1
    /\ \E i \in 1..Len(last.written) :
        last.written[i].cloned /\ Len(last.written[i].clone_path) > 0

====
